---- MODULE Spec2Model ----
(***************************************************************************)
(* A model of the tracking-statistics engine (ObjectTracker) and of the    *)
(* video session / batch controllers (VideoProcessor) of airo-hurane.      *)
(*                                                                         *)
(* Two specifications share the module:                                    *)
(*   EngineSpec  drives one ObjectTracker (and a second, never-used one    *)
(*               kept beside it for comparison) with arbitrary batches     *)
(*               and resets;                                               *)
(*   Spec        runs VideoProcessor.process_video, called directly or     *)
(*               through process_multiple_videos, frame by frame.          *)
(***************************************************************************)
EXTENDS Integers, Sequences, FiniteSets, TLC

\* ------------------------------------------------------------------ bounds
\* Identities the external tracker may hand out: 1..MaxId.
MaxId == 2
\* Largest number of boxes in one frame's tracking result.
MaxBoxes == 2
\* Largest number of track_frame calls between two resets (EngineSpec).
MaxUpdates == 3
\* Largest number of resets of the engine (EngineSpec).
MaxResets == 1
\* Largest number of sources handed to process_multiple_videos.
MaxVideos == 2
\* Largest number of frames cap.read() yields in one run, all sessions together.
MaxFrames == 2
\* Largest skip_frames argument handed to process_video.
MaxSkip == 1
\* Largest number of entries of the directory handed to get_video_files.
MaxFiles == 2
\* Width and height, in cells, of the frames handed to render_frame.
Side == 2
\* Largest number of tracked objects handed to render_frame.
MaxDrawn == 2

\* ------------------------------------------------------ program constants
\* Config.SKIP_FRAMES
SKIP_FRAMES == 0

\* --------------------------------------------------- ObjectTracker (engine)
VARIABLES
    tracker,      \* self.tracker: the ObjectTracker of the VideoProcessor
    ret,          \* the tuple the latest track_frame call returned
    ref,          \* EngineSpec: an ObjectTracker constructed when tracker was last reset
    ret_ref,      \* EngineSpec: the tuple ref's latest track_frame call returned
    batch,        \* what model.track returned to the latest track_frame call: <<>> or <<res>>
    fed,          \* EngineSpec: the identity set of each batch supplied since the last reset
    entered,      \* EngineSpec: track_frame calls entered since construction or the last reset
    resets,       \* EngineSpec: how many times tracker.reset() was called
    reused,       \* EngineSpec: whether a reset was applied to an engine that had entered calls
    snap          \* EngineSpec: <<>>, or <<the dict get_statistics returned>> since the last change

\* -------------------------------------------- VideoProcessor (controllers)
VARIABLES
    entry,            \* the method the caller invoked
    video_paths,      \* its sources, in order (one for process_video)
    display,          \* its display argument
    output,           \* whether output_path / output_dir was given
    skip_arg,         \* process_video's skip_frames argument: <<>> is None
    pc,               \* where the call stands
    i,                \* process_multiple_videos: 1-based index of the current source
    results,          \* the list being returned (process_video: its one dict)
    exc,              \* the exception raised, "" while there is none
    video_path,       \* process_video's argument: <<>> before the first call, then <<source>>
    cap,              \* the cv2.VideoCapture of the session
    video_writer,     \* the cv2.VideoWriter of the session
    window,           \* the display window
    skip_frames,      \* process_video's local
    frame_count,      \* process_video's local
    processed_count,  \* process_video's local
    persisted,        \* identities held by the model's tracker (persist=True)
    reads,            \* frames cap.read() has yielded since the call began, all sessions
    loop_exit,        \* how the frame loop of the session was left, "" while it runs
    tracker_at_call,  \* the statistics as they stood when process_video was called
    tracked,          \* 1-based indices of the session's frames that entered track_frame
    session_ids,      \* identities of the batches returned to the session
    written,          \* indices of the frames handed to video_writer.write, in order
    failed_at,        \* the step of the iteration that raised, "" while none has
    steps             \* what the latest iteration of the frame loop did, in order

\* ------------------------------------------------- utils.get_video_files
VARIABLES
    file_path,        \* what the path names: nothing, a file, or a directory and its entries
    case_sensitive,   \* whether the platform's glob tells upper from lower case (Windows: no)
    found             \* <<>>, or <<the list get_video_files returned>>

\* ------------------------------------------- FrameRenderer.render_frame
VARIABLES
    frame,            \* the caller's frame: the colour of each cell
    tracked_objects,  \* the caller's list of tracked objects
    given,            \* <<frame, tracked_objects>> as they were before the first call
    rendered          \* the frames render_frame has returned, in call order

\* ------------------- process_multiple_videos: the output path of each source
VARIABLES
    named_paths,      \* the video_paths of the call, as strings
    output_dir,       \* its output_dir argument: <<>> is None, else <<string>>
    output_paths      \* the output_path handed to each process_video call so far: <<>> is None

IDs == 1..MaxId

\* Sequences over S of length at most n.
BoundedSeq(S, n) == UNION {[1..k -> S] : k \in 0..n}

\* What model.track hands back, as far as track_frame reads it: whether
\* results[0].boxes.id is present, and the identities of the boxes in order.
\* (has_id = FALSE covers results being empty, boxes None and boxes.id None.)
TrackResults ==
    {[has_id |-> FALSE, id |-> <<>>]}
        \cup {[has_id |-> TRUE, id |-> s] : s \in BoundedSeq(IDs, MaxBoxes)}

\* The identity set of a tracking result: current_ids after the loop.
RECURSIVE current_ids_loop(_, _, _)
current_ids_loop(id, n, acc) ==
    IF n > Len(id) THEN acc
    ELSE current_ids_loop(id, n + 1, acc \cup {id[n]})

current_ids_of(res) ==
    IF res.has_id THEN current_ids_loop(res.id, 1, {}) ELSE {}

\* tracked_objects: one entry per box, in order (the identity of each; the
\* bbox, confidence and class are copied through and never read back).
tracked_objects_of(res) ==
    IF res.has_id THEN res.id ELSE <<>>

\* ObjectTracker.__init__: the statistics of a newly constructed tracker.
ObjectTracker_init ==
    [unique_ids |-> {},
     current_frame_count |-> 0,
     total_unique_count |-> 0,
     frame_number |-> 0]

\* The only effect of track_frame that survives model.track raising.
track_frame_enter(self) ==
    [self EXCEPT !.frame_number = @ + 1]

\* A track_frame that forgets the identities of earlier frames.
track_frame_forgetful(self, res) ==
    LET current_ids == current_ids_of(res)
    IN  [unique_ids |-> current_ids,
         current_frame_count |-> Cardinality(current_ids),
         total_unique_count |-> Cardinality(current_ids),
         frame_number |-> self.frame_number + 1]

\* A track_frame that counts boxes instead of distinct identities.
track_frame_boxes(self, res) ==
    LET current_ids == current_ids_of(res)
        unique_ids == self.unique_ids \cup current_ids
    IN  [unique_ids |-> unique_ids,
         current_frame_count |-> Len(tracked_objects_of(res)),
         total_unique_count |-> Cardinality(unique_ids),
         frame_number |-> self.frame_number + 1]

\* A track_frame that returns early, before counting the frame, when the
\* batch carries no identity.
track_frame_skips_empty(self, res) ==
    LET current_ids == current_ids_of(res)
        unique_ids == self.unique_ids \cup current_ids
    IN  [unique_ids |-> unique_ids,
         current_frame_count |-> Cardinality(current_ids),
         total_unique_count |-> Cardinality(unique_ids),
         frame_number |-> IF current_ids = {} THEN self.frame_number
                          ELSE self.frame_number + 1]

\* ObjectTracker.track_frame, given what model.track returned: the new state.
track_frame(self, res) ==
    LET current_ids == current_ids_of(res)
        unique_ids == self.unique_ids \cup current_ids
    IN  [unique_ids |-> unique_ids,
         current_frame_count |-> Cardinality(current_ids),
         total_unique_count |-> Cardinality(unique_ids),
         frame_number |-> self.frame_number + 1]

\* The tuple track_frame returns, read from the state it leaves.
track_frame_return(after, res) ==
    <<tracked_objects_of(res), after.current_frame_count, after.total_unique_count>>

\* A reset that leaves the frame counter running.
reset_keeps_frame_number(self) ==
    [unique_ids |-> {},
     current_frame_count |-> 0,
     total_unique_count |-> 0,
     frame_number |-> self.frame_number]

\* A reset that leaves the current-frame count standing.
reset_keeps_current(self) ==
    [unique_ids |-> {},
     current_frame_count |-> self.current_frame_count,
     total_unique_count |-> 0,
     frame_number |-> 0]

\* A reset that does nothing.
reset_noop(self) == self

\* ObjectTracker.reset.
reset(self) ==
    [unique_ids |-> {},
     current_frame_count |-> 0,
     total_unique_count |-> 0,
     frame_number |-> 0]

\* sorted(list(s)): the elements of a finite set of integers, ascending.
RECURSIVE sorted(_)
sorted(s) ==
    IF s = {} THEN <<>>
    ELSE LET m == CHOOSE x \in s : \A y \in s : x <= y
         IN  <<m>> \o sorted(s \ {m})

\* ObjectTracker.get_statistics: the dict it returns.
get_statistics(self) ==
    [frames_processed |-> self.frame_number,
     current_count |-> self.current_frame_count,
     total_unique |-> self.total_unique_count,
     unique_ids |-> sorted(self.unique_ids)]

\* A get_statistics that clears the current-frame count once it was read.
get_statistics_clears_current(self) ==
    [self EXCEPT !.current_frame_count = 0]

\* ObjectTracker.get_statistics: the state it leaves. Lines 107-112 assign to
\* no attribute, and sorted(list(...)) builds a new list from the set.
get_statistics_self(self) == self

engine_vars == <<tracker, ret, batch, ref, ret_ref, fed, entered, resets, reused, snap>>

input_vars == <<entry, video_paths, display, output, skip_arg>>

session_vars ==
    <<video_path, cap, video_writer, window, skip_frames, frame_count, processed_count,
      loop_exit, tracker_at_call, tracked, session_ids, written, failed_at, steps>>

control_vars == <<pc, i, results, exc, persisted, reads>>

files_vars == <<file_path, case_sensitive, found>>

render_vars == <<frame, tracked_objects, given, rendered>>

naming_vars == <<named_paths, output_dir, output_paths>>

helper_vars == <<files_vars, render_vars, naming_vars>>

vars == <<engine_vars, input_vars, session_vars, control_vars, helper_vars>>

\* get_video_files has not been called.
FilesIdle ==
    /\ file_path = [kind |-> "none", entries |-> <<>>]
    /\ case_sensitive = TRUE
    /\ found = <<>>

\* No output path has been asked for.
NamingIdle ==
    /\ named_paths = <<>>
    /\ output_dir = <<>>
    /\ output_paths = <<>>

\* render_frame has not been called.
RenderIdle ==
    /\ frame = <<>>
    /\ tracked_objects = <<>>
    /\ given = <<>>
    /\ rendered = <<>>

NoReturn == <<<<>>, 0, 0>>

\* ---------------------------------------------------------------- sources
\* What the file system and OpenCV answer when a source is opened:
\*   missing     video_path.exists() is false
\*   unopenable  the file exists and cap.isOpened() is false
\*   nofps       it opens and cap.get(CAP_PROP_FPS) is 0
\*   ok          it opens and reports a frame rate
SourceKinds == {"missing", "unopenable", "nofps", "ok"}

\* The paths handed to the call: n distinct paths, named 1..n.
Paths(n) == [j \in 1..n |-> j]

\* Keys cv2.waitKey(1) & 0xFF can deliver, as far as the loop tells them apart.
Keys == {"q", "p", "other"}

\* The identities a batch carries, read off the batch itself.
BatchIdentities(res) ==
    IF res.has_id THEN {res.id[j] : j \in 1..Len(res.id)} ELSE {}

\* --------------------------------------------------------------- EngineSpec
EngineIdle ==
    /\ entry = "none"
    /\ video_paths = <<>>
    /\ display = FALSE
    /\ output = FALSE
    /\ skip_arg = <<>>
    /\ pc = "idle"
    /\ i = 0
    /\ results = <<>>
    /\ exc = ""
    /\ video_path = <<>>
    /\ cap = "none"
    /\ video_writer = "None"
    /\ window = "none"
    /\ skip_frames = 0
    /\ frame_count = 0
    /\ processed_count = 0
    /\ persisted = {}
    /\ reads = 0
    /\ loop_exit = ""
    /\ tracker_at_call = ObjectTracker_init
    /\ tracked = {}
    /\ session_ids = {}
    /\ written = <<>>
    /\ failed_at = ""
    /\ steps = <<>>

\* A newly constructed ObjectTracker that nothing has called.
EngineFresh ==
    /\ tracker = ObjectTracker_init
    /\ ref = ObjectTracker_init
    /\ ret = NoReturn
    /\ ret_ref = NoReturn
    /\ batch = <<>>
    /\ fed = <<>>
    /\ entered = 0
    /\ resets = 0
    /\ reused = FALSE
    /\ snap = <<>>

EngineInit ==
    /\ EngineFresh
    /\ EngineIdle
    /\ FilesIdle
    /\ RenderIdle
    /\ NamingIdle

\* One track_frame call on the engine; the comparison engine gets the same batch.
EngineUpdate ==
    /\ entered < MaxUpdates
    /\ \E res \in TrackResults :
        /\ tracker' = track_frame(tracker, res)
        /\ ret' = track_frame_return(tracker', res)
        /\ ref' = track_frame(ref, res)
        /\ ret_ref' = track_frame_return(ref', res)
        /\ batch' = <<res>>
        /\ fed' = Append(fed, BatchIdentities(res))
    /\ entered' = entered + 1
    /\ snap' = <<>>
    /\ UNCHANGED <<resets, reused, input_vars, helper_vars, session_vars, control_vars>>

\* One track_frame call in which model.track raises: no batch is supplied.
EngineTrackRaises ==
    /\ entered < MaxUpdates
    /\ tracker' = track_frame_enter(tracker)
    /\ ref' = track_frame_enter(ref)
    /\ entered' = entered + 1
    /\ snap' = <<>>
    /\ UNCHANGED <<ret, ret_ref, batch, fed, resets, reused, input_vars, helper_vars, session_vars,
                   control_vars>>

\* tracker.reset(); a never-before-used engine is constructed beside it.
EngineReset ==
    /\ resets < MaxResets
    /\ tracker' = reset(tracker)
    /\ ref' = ObjectTracker_init
    /\ fed' = <<>>
    /\ entered' = 0
    /\ resets' = resets + 1
    /\ reused' = (reused \/ entered > 0)
    /\ snap' = <<>>
    /\ UNCHANGED <<ret, ret_ref, batch, input_vars, helper_vars, session_vars, control_vars>>

\* One get_statistics call; the dict it returns is kept until the engine is
\* next updated or reset.
EngineSnapshot ==
    /\ snap' = <<get_statistics(tracker)>>
    /\ tracker' = get_statistics_self(tracker)
    /\ UNCHANGED <<ret, ret_ref, batch, ref, fed, entered, resets, reused, input_vars, helper_vars,
                   session_vars, control_vars>>

EngineNext == EngineUpdate \/ EngineTrackRaises \/ EngineReset \/ EngineSnapshot

EngineSpec == EngineInit /\ [][EngineNext]_vars

\* ------------------------------------------------ VideoProcessor.process_video
\* Whether the frame with 1-based index n is skipped under skip count k,
\* taking the remainder by k instead of k + 1.
skipped_mod_k(k, n) ==
    k > 0 /\ n % k # 0

\* Line 96: whether the frame with 1-based index n is skipped under skip count k.
skipped(k, n) ==
    k > 0 /\ n % (k + 1) # 0

\* A prologue that resets the statistics and opens the writer before it
\* looks at the source.
prologue_reset_first(kind, out, skip, self) ==
    LET w == IF out THEN "opened" ELSE "None"
        k == IF skip = <<>> THEN SKIP_FRAMES ELSE skip[1]
    IN  IF kind = "missing"
        THEN [exc |-> "FileNotFoundError", cap |-> "none", video_writer |-> w,
              tracker |-> reset(self), skip_frames |-> 0]
        ELSE IF kind = "unopenable"
        THEN [exc |-> "ValueError", cap |-> "unopened", video_writer |-> w,
              tracker |-> reset(self), skip_frames |-> 0]
        ELSE IF kind = "nofps"
        THEN [exc |-> "ZeroDivisionError", cap |-> "opened", video_writer |-> w,
              tracker |-> reset(self), skip_frames |-> 0]
        ELSE [exc |-> "", cap |-> "opened", video_writer |-> w,
              tracker |-> reset(self), skip_frames |-> k]

\* Lines 46-85: what process_video does before its frame loop, for a source
\* of the given kind, output_path given or not (out), skip_frames argument
\* skip and statistics self: the exception it raises ("" for none) and what it leaves.
\*   46-48  a missing file raises FileNotFoundError before a capture exists
\*   51-53  a capture that is not opened raises ValueError (never released)
\*   56-65  the header is printed; total_frames/fps divides by a zero fps
\*   68-76  the writer is opened when output_path is given
\*   79     the statistics are reset
\*   82-85  skip_frames falls back to Config.SKIP_FRAMES
prologue(kind, out, skip, self) ==
    IF kind = "missing"
    THEN [exc |-> "FileNotFoundError", cap |-> "none", video_writer |-> "None",
          tracker |-> self, skip_frames |-> 0]
    ELSE IF kind = "unopenable"
    THEN [exc |-> "ValueError", cap |-> "unopened", video_writer |-> "None",
          tracker |-> self, skip_frames |-> 0]
    ELSE IF kind = "nofps"
    THEN [exc |-> "ZeroDivisionError", cap |-> "opened", video_writer |-> "None",
          tracker |-> self, skip_frames |-> 0]
    ELSE [exc |-> "", cap |-> "opened",
          video_writer |-> IF out THEN "opened" ELSE "None",
          tracker |-> reset(self),
          skip_frames |-> IF skip = <<>> THEN SKIP_FRAMES ELSE skip[1]]

SourceUnavailable == {"FileNotFoundError", "ValueError"}

\* The dict process_video returns (processing_time and average_fps, both
\* positive reals here, are left out).
session_result(src, count, self) ==
    [video_path |-> src,
     frames_processed |-> count,
     statistics |-> get_statistics(self)]

Init ==
    /\ entry \in {"process_video", "process_multiple_videos"}
    /\ video_paths \in
        IF entry = "process_video" THEN {Paths(1)}
        ELSE {Paths(n) : n \in 0..MaxVideos}
    /\ display \in BOOLEAN
    /\ output \in BOOLEAN
    /\ skip_arg \in
        IF entry = "process_video" THEN {<<>>} \cup {<<k>> : k \in 0..MaxSkip}
        ELSE {<<>>}
    /\ pc = "call"
    /\ i = 1
    /\ results = <<>>
    /\ exc = ""
    /\ tracker = ObjectTracker_init
    /\ ret = NoReturn
    /\ batch = <<>>
    /\ persisted = {}
    /\ reads = 0
    /\ video_path = <<>>
    /\ cap = "none"
    /\ video_writer = "None"
    /\ window = "none"
    /\ skip_frames = 0
    /\ frame_count = 0
    /\ processed_count = 0
    /\ loop_exit = ""
    /\ tracker_at_call = ObjectTracker_init
    /\ tracked = {}
    /\ session_ids = {}
    /\ written = <<>>
    /\ failed_at = ""
    /\ steps = <<>>
    /\ ref = ObjectTracker_init
    /\ ret_ref = NoReturn
    /\ fed = <<>>
    /\ entered = 0
    /\ resets = 0
    /\ reused = FALSE
    /\ snap = <<>>
    /\ FilesIdle
    /\ RenderIdle
    /\ NamingIdle

engine_ghosts == <<ref, ret_ref, fed, entered, resets, reused, snap>>

\* process_video is called for video_paths[i]: lines 46-85.
Prologue(p) ==
    /\ video_path' = <<video_paths[i]>>
    /\ exc' = p.exc
    /\ cap' = p.cap
    /\ video_writer' = p.video_writer
    /\ tracker' = p.tracker
    /\ skip_frames' = p.skip_frames
    /\ frame_count' = 0
    /\ processed_count' = 0
    /\ window' = "none"
    /\ loop_exit' = ""
    /\ tracker_at_call' = tracker
    /\ tracked' = {}
    /\ session_ids' = {}
    /\ written' = <<>>
    /\ failed_at' = ""
    /\ steps' = <<>>
    /\ pc' = IF p.exc = "" THEN "running" ELSE "raised"
    /\ UNCHANGED <<ret, batch, i, results, persisted, reads, input_vars, helper_vars, engine_ghosts>>

\* Lines 46-53: the source cannot be opened; the exception leaves
\* process_video and, uncaught, process_multiple_videos.
OpenFails ==
    /\ pc = "call" /\ i <= Len(video_paths)
    /\ \E kind \in SourceKinds :
        LET p == prologue(kind, output, skip_arg, tracker)
        IN  p.exc \in SourceUnavailable /\ Prologue(p)

\* Lines 56-65: the source opens and reports no frame rate.
HeaderFails ==
    /\ pc = "call" /\ i <= Len(video_paths)
    /\ \E kind \in SourceKinds :
        LET p == prologue(kind, output, skip_arg, tracker)
        IN  p.exc = "ZeroDivisionError" /\ Prologue(p)

\* Lines 69-75: the cv2.VideoWriter that was constructed. isOpened() is never
\* asked: a writer whose file could not be created (accepts is false) is kept
\* like one that can take frames.
VideoWriter(w, accepts) ==
    IF w = "None" \/ accepts THEN w ELSE "unusable"

\* Lines 46-85: the source opens and the frame loop is entered.
StartSession ==
    /\ pc = "call" /\ i <= Len(video_paths)
    /\ \E kind \in SourceKinds, accepts \in BOOLEAN :
        LET p == prologue(kind, output, skip_arg, tracker)
        IN  /\ p.exc = ""
            /\ Prologue([p EXCEPT !.video_writer = VideoWriter(@, accepts)])

\* Lines 89-91: cap.read() returns no frame (the stream has ended, or the
\* read failed); break.
ReadEndOfStream ==
    /\ pc = "running"
    /\ loop_exit' = "eos"
    /\ steps' = <<"read">>
    /\ pc' = "cleanup"
    /\ UNCHANGED <<tracker, ret, batch, engine_ghosts, input_vars, helper_vars, i, results, exc,
                   persisted, reads, video_path, cap, video_writer, window, skip_frames, frame_count,
                   processed_count, tracker_at_call, tracked, session_ids, written, failed_at>>

\* Lines 89-97: a frame is read and skipped.
SkipFrame ==
    /\ pc = "running"
    /\ reads < MaxFrames
    /\ skipped(skip_frames, frame_count + 1)
    /\ frame_count' = frame_count + 1
    /\ reads' = reads + 1
    /\ steps' = <<"read">>
    /\ UNCHANGED <<tracker, ret, batch, engine_ghosts, input_vars, helper_vars, pc, i, results, exc,
                   persisted, video_path, cap, video_writer, window, skip_frames,
                   processed_count, loop_exit, tracker_at_call, tracked, session_ids,
                   written, failed_at>>

\* Lines 89-101: a frame is read, track_frame is entered and model.track raises.
TrackRaises ==
    /\ pc = "running"
    /\ reads < MaxFrames
    /\ ~skipped(skip_frames, frame_count + 1)
    /\ frame_count' = frame_count + 1
    /\ reads' = reads + 1
    /\ tracker' = track_frame_enter(tracker)
    /\ tracked' = tracked \cup {frame_count + 1}
    /\ exc' = "Exception"
    /\ failed_at' = "track"
    /\ steps' = <<"read", "track">>
    /\ loop_exit' = "error"
    /\ pc' = "cleanup"
    /\ UNCHANGED <<ret, batch, engine_ghosts, input_vars, helper_vars, i, results, persisted, video_path, cap,
                   video_writer, window, skip_frames, processed_count,
                   tracker_at_call, session_ids, written>>

\* Lines 89-101: a frame is read and tracked; res is what model.track returned.
Tracked(res) ==
    /\ pc = "running"
    /\ reads < MaxFrames
    /\ ~skipped(skip_frames, frame_count + 1)
    /\ frame_count' = frame_count + 1
    /\ reads' = reads + 1
    /\ tracker' = track_frame(tracker, res)
    /\ persisted' = persisted \cup current_ids_of(res)
    /\ tracked' = tracked \cup {frame_count + 1}
    /\ session_ids' = session_ids \cup BatchIdentities(res)
    /\ UNCHANGED <<ret, batch, engine_ghosts, input_vars, helper_vars, i, results, video_path, cap,
                   skip_frames, tracker_at_call>>

\* A loop body that samples the keyboard whether or not a window is shown.
loop_body_samples_always(writer, disp) ==
    <<"read", "track", "update", "render">>
        \o (IF writer # "None" THEN <<"write">> ELSE <<>>)
        \o (IF disp THEN <<"show">> ELSE <<>>)
        \o <<"sample">>

\* Lines 88-134: what one iteration does with a frame that is not skipped,
\* in order: cap.read (89), model.track (object_tracker.py 47), the update of
\* the statistics (object_tracker.py 87-89), render_frame (108), write when
\* a writer exists (117-118), imshow (131) and waitKey(1) (134) when display
\* is on.
loop_body(writer, disp) ==
    <<"read", "track", "update", "render">>
        \o (IF writer # "None" THEN <<"write">> ELSE <<>>)
        \o (IF disp THEN <<"show", "sample">> ELSE <<>>)

\* The iteration up to the step that raised: render_frame, write, or one
\* of resize / imshow / waitKey.
loop_body_upto(writer, disp, stage) ==
    <<"read", "track", "update", "render">>
        \o (IF stage # "render" /\ writer # "None" THEN <<"write">> ELSE <<>>)
        \o (IF stage = "show" THEN <<"show">> ELSE <<>>)

\* A write step that hands the frame to the writer twice.
Write_twice ==
    written' = IF video_writer # "None"
               THEN Append(Append(written, frame_count + 1), frame_count + 1)
               ELSE written

\* Lines 116-118: the annotated frame is handed to the writer when one was
\* constructed; whether the writer is open is not asked.
Write ==
    written' = IF video_writer # "None" THEN Append(written, frame_count + 1)
               ELSE written

\* Lines 99-142 with no key that stops the loop: the frame is tracked,
\* rendered, written, shown (a key other than q and p, or none, arrives) and counted.
ProcessFrame ==
    \E res \in TrackResults :
        /\ Tracked(res)
        /\ Write
        /\ steps' = loop_body(video_writer, display)
        /\ window' = IF display THEN "shown" ELSE window
        /\ processed_count' = processed_count + 1
        /\ UNCHANGED <<pc, exc, loop_exit, video_writer, failed_at>>

\* A loop that asks for a key whether or not display is on.
samples_key_always(disp) == TRUE

\* Lines 121-134: cv2.waitKey(1) is called inside `if display:` only.
samples_key(disp) == disp

\* A q that is noted and does not leave the loop.
ProcessFrameQuit_no_break ==
    /\ samples_key(display)
    /\ \E res \in TrackResults :
        /\ Tracked(res)
        /\ Write
        /\ steps' = loop_body(video_writer, display)
        /\ window' = "shown"
        /\ loop_exit' = "quit"
        /\ processed_count' = processed_count + 1
        /\ UNCHANGED <<pc, exc, video_writer, failed_at>>

\* Lines 99-137: as ProcessFrame, and waitKey delivers q: break, before
\* processed_count is incremented.
ProcessFrameQuit ==
    /\ samples_key(display)
    /\ \E res \in TrackResults :
        /\ Tracked(res)
        /\ Write
        /\ steps' = loop_body(video_writer, display)
        /\ window' = "shown"
        /\ loop_exit' = "quit"
        /\ pc' = "cleanup"
        /\ UNCHANGED <<exc, processed_count, video_writer, failed_at>>

\* Lines 99-140: as ProcessFrame, and waitKey delivers p: waitKey(0) blocks.
ProcessFramePause ==
    /\ samples_key(display)
    /\ \E res \in TrackResults :
        /\ Tracked(res)
        /\ Write
        /\ steps' = loop_body(video_writer, display)
        /\ window' = "shown"
        /\ pc' = "paused"
        /\ UNCHANGED <<exc, processed_count, loop_exit, video_writer, failed_at>>

\* A waitKey(0) whose q leaves the loop instead of resuming it.
waitKey0_quits(key) ==
    /\ processed_count' = IF key = "q" THEN processed_count ELSE processed_count + 1
    /\ loop_exit' = IF key = "q" THEN "quit" ELSE loop_exit
    /\ pc' = IF key = "q" THEN "cleanup" ELSE "running"

\* Lines 140-142: cv2.waitKey(0) returns key, which is dropped; the frame is
\* counted and the loop goes on.
waitKey0(key) ==
    /\ processed_count' = processed_count + 1
    /\ loop_exit' = loop_exit
    /\ pc' = "running"

\* Lines 140-142: any key ends waitKey(0).
Resume ==
    /\ pc = "paused"
    /\ \E key \in Keys : waitKey0(key)
    /\ steps' = Append(steps, "wait")
    /\ UNCHANGED <<tracker, ret, batch, engine_ghosts, input_vars, helper_vars, i, results, exc,
                   persisted, reads, video_path, cap, video_writer, window, skip_frames, frame_count,
                   tracker_at_call, tracked, session_ids, written, failed_at>>

\* Lines 103-131: the frame is tracked and a later step of the iteration
\* raises: render_frame, video_writer.write, or cv2.resize / cv2.imshow / cv2.waitKey.
ProcessFrameRaises ==
    \E res \in TrackResults, stage \in {"render", "write", "show"} :
        /\ stage = "write" => video_writer # "None"
        /\ stage = "show" => display
        /\ Tracked(res)
        /\ written' = IF stage = "show" /\ video_writer # "None"
                      THEN Append(written, frame_count + 1) ELSE written
        /\ exc' = "Exception"
        /\ failed_at' = stage
        /\ steps' = loop_body_upto(video_writer, display, stage)
        /\ loop_exit' = "error"
        /\ pc' = "cleanup"
        /\ UNCHANGED <<processed_count, video_writer, window>>

\* Lines 153-159: the finally block; an exception in flight goes on to the caller.
Cleanup ==
    /\ pc = "cleanup"
    /\ cap' = "released"
    /\ video_writer' = IF video_writer # "None" THEN "released" ELSE video_writer
    /\ window' = IF display THEN "destroyed" ELSE window
    /\ pc' = IF exc = "" THEN "report" ELSE "raised"
    /\ UNCHANGED <<video_path, tracker, ret, batch, engine_ghosts, input_vars, helper_vars, i, results, exc,
                   persisted, reads, skip_frames, frame_count, processed_count, loop_exit,
                   tracker_at_call, tracked, session_ids, written, failed_at, steps>>

\* Lines 161-172: end_time equals start_time, and processed_count/processing_time
\* divides by zero.
ReportRaises ==
    /\ pc = "report"
    /\ exc' = "ZeroDivisionError"
    /\ pc' = "raised"
    /\ UNCHANGED <<tracker, ret, batch, engine_ghosts, input_vars, helper_vars, i, results,
                   persisted, reads, session_vars>>

\* A report whose result is put in front of the earlier ones.
ReportReturns_prepends ==
    /\ pc = "report"
    /\ results' = <<session_result(video_path[1], processed_count, tracker)>> \o results
    /\ IF entry = "process_multiple_videos"
       THEN i' = i + 1 /\ pc' = "call"
       ELSE i' = i /\ pc' = "returned"
    /\ UNCHANGED <<tracker, ret, batch, engine_ghosts, input_vars, helper_vars, exc, persisted, reads,
                   session_vars>>

\* Lines 161-183: the result is returned; process_multiple_videos (line 221)
\* appends it and goes on to the next source.
ReportReturns ==
    /\ pc = "report"
    /\ results' = Append(results,
                         session_result(video_path[1], processed_count, tracker))
    /\ IF entry = "process_multiple_videos"
       THEN i' = i + 1 /\ pc' = "call"
       ELSE i' = i /\ pc' = "returned"
    /\ UNCHANGED <<tracker, ret, batch, engine_ghosts, input_vars, helper_vars, exc, persisted, reads,
                   session_vars>>

\* Line 223: process_multiple_videos returns its list.
BatchReturns ==
    /\ entry = "process_multiple_videos"
    /\ pc = "call"
    /\ i > Len(video_paths)
    /\ pc' = "returned"
    /\ UNCHANGED <<tracker, ret, batch, engine_ghosts, input_vars, helper_vars, i, results, exc,
                   persisted, reads, session_vars>>

Next ==
    \/ OpenFails
    \/ HeaderFails
    \/ StartSession
    \/ ReadEndOfStream
    \/ SkipFrame
    \/ TrackRaises
    \/ ProcessFrame
    \/ ProcessFrameQuit
    \/ ProcessFramePause
    \/ Resume
    \/ ProcessFrameRaises
    \/ Cleanup
    \/ ReportRaises
    \/ ReportReturns
    \/ BatchReturns

Spec == Init /\ [][Next]_vars

\* The calls over finite streams: while the frame loop runs, cap.read() comes
\* to report the end of the stream (lines 89-91), and once the loop is left
\* the finally block runs (lines 153-159). Nothing is asked of the user:
\* cv2.waitKey(0) may wait for ever.
LiveSpec == Spec /\ WF_vars(ReadEndOfStream) /\ WF_vars(Cleanup)

\* --------------------------------------------------- utils.get_video_files
\* File names and extensions are strings: sequences of character codes.
\* str.lower and str.upper, character by character.
lower(str) ==
    [j \in 1..Len(str) |-> IF str[j] >= 65 /\ str[j] <= 90 THEN str[j] + 32 ELSE str[j]]

upper(str) ==
    [j \in 1..Len(str) |-> IF str[j] >= 97 /\ str[j] <= 122 THEN str[j] - 32 ELSE str[j]]

\* Line 39: '.mp4', '.avi', '.mov', '.mkv', '.flv', '.wmv', '.webm'.
extensions ==
    << <<46, 109, 112, 52>>, <<46, 97, 118, 105>>, <<46, 109, 111, 118>>,
       <<46, 109, 107, 118>>, <<46, 102, 108, 118>>, <<46, 119, 109, 118>>,
       <<46, 119, 101, 98, 109>> >>

\* The names a directory may hold: 'a.mp4', 'b.MP4', 'c.Mp4', 'd.avi',
\* 'e.txt', 'f.webm'. No two are equal up to case, so each directory can
\* exist on either kind of file system.
FileNames ==
    { <<97, 46, 109, 112, 52>>, <<98, 46, 77, 80, 52>>, <<99, 46, 77, 112, 52>>,
      <<100, 46, 97, 118, 105>>, <<101, 46, 116, 120, 116>>,
      <<102, 46, 119, 101, 98, 109>> }

\* Directory listings: sequences of distinct names, in the order the
\* file system yields them.
Listings ==
    {l \in BoundedSeq(FileNames, MaxFiles) :
        \A a, b \in 1..Len(l) : a # b => l[a] # l[b]}

\* Whether name matches the pattern '*' followed by ext: it ends with ext,
\* compared as the platform's glob compares (case folded where it does not
\* tell case apart).
fnmatch(name, ext, sensitive) ==
    LET nm == IF sensitive THEN name ELSE lower(name)
        e == IF sensitive THEN ext ELSE lower(ext)
    IN  /\ Len(nm) >= Len(e)
        /\ SubSeq(nm, Len(nm) - Len(e) + 1, Len(nm)) = e

\* file_path.glob(f'*{ext}'): the matching entries, in listing order.
glob(entries, ext, sensitive) ==
    SelectSeq(entries, LAMBDA name : fnmatch(name, ext, sensitive))

\* Lines 45-47: for each extension, the matches of '*ext' and then of
\* '*EXT' are appended to video_files.
RECURSIVE extend_loop(_, _, _, _)
extend_loop(entries, k, video_files, sensitive) ==
    IF k > Len(extensions) THEN video_files
    ELSE extend_loop(entries, k + 1,
            video_files \o glob(entries, extensions[k], sensitive)
                        \o glob(entries, upper(extensions[k]), sensitive),
            sensitive)

\* Path.suffix: the name from its last dot on, '' when it has no dot or its
\* last dot is its first or its last character.
suffix(name) ==
    LET dots == {j \in 1..Len(name) : name[j] = 46}
        last == CHOOSE j \in dots : \A d \in dots : d <= j
    IN  IF dots = {} THEN <<>>
        ELSE IF last = 1 \/ last = Len(name) THEN <<>>
        ELSE SubSeq(name, last, Len(name))

\* a < b for strings: the order of their first differing character codes,
\* a proper prefix coming first.
str_lt(a, b) ==
    \/ /\ Len(a) < Len(b)
       /\ \A j \in 1..Len(a) : a[j] = b[j]
    \/ \E k \in 1..Len(a) :
        /\ k <= Len(b)
        /\ \A j \in 1..(k - 1) : a[j] = b[j]
        /\ a[k] < b[k]

\* sorted(list) for a list of strings, equal entries kept.
RECURSIVE sorted_list(_)
sorted_list(list) ==
    IF list = <<>> THEN <<>>
    ELSE LET m == CHOOSE j \in 1..Len(list) :
                      \A k \in 1..Len(list) : ~str_lt(list[k], list[j])
         IN  <<list[m]>> \o
             sorted_list(SubSeq(list, 1, m - 1) \o SubSeq(list, m + 1, Len(list)))

\* Lines 38-52: get_video_files with the default extensions.
get_video_files(path, sensitive) ==
    IF path.kind = "dir"
    THEN sorted_list(extend_loop(path.entries, 1, <<>>, sensitive))
    ELSE IF path.kind = "file"
    THEN IF \E k \in 1..Len(extensions) : lower(suffix(path.entries[1])) = extensions[k]
         THEN sorted_list(<<path.entries[1]>>)
         ELSE <<>>
    ELSE <<>>

\* The video pipeline, idle.
PipelineIdle ==
    /\ EngineFresh
    /\ EngineIdle

FilesInit ==
    /\ file_path \in
        {[kind |-> "none", entries |-> <<>>]}
            \cup {[kind |-> "file", entries |-> <<name>>] : name \in FileNames}
            \cup {[kind |-> "dir", entries |-> l] : l \in Listings}
    /\ case_sensitive \in BOOLEAN
    /\ found = <<>>
    /\ PipelineIdle
    /\ RenderIdle
    /\ NamingIdle

\* One call of get_video_files(file_path).
GetVideoFiles ==
    /\ found = <<>>
    /\ found' = <<get_video_files(file_path, case_sensitive)>>
    /\ UNCHANGED <<file_path, case_sensitive, render_vars, naming_vars, engine_vars, input_vars,
                   session_vars, control_vars>>

FilesNext == GetVideoFiles

FilesSpec == FilesInit /\ [][FilesNext]_vars

\* --------------------------------------------- FrameRenderer.render_frame
\* Config.BOX_COLOR
BOX_COLOR == <<0, 255, 0>>

\* The cells of a frame; one cell stands for a block of pixels as wide as
\* the stroke cv2.rectangle draws.
Cells == (1..Side) \X (1..Side)

\* Frames handed in: black, or black with the first cell already in the
\* box colour.
Frames ==
    {[c \in Cells |-> IF c \in G THEN BOX_COLOR ELSE <<0, 0, 0>>] :
        G \in {{}, {<<1, 1>>}}}

\* Bounding boxes <<x1, y1, x2, y2>> inside the frame.
BBoxes ==
    {b \in (1..Side) \X (1..Side) \X (1..Side) \X (1..Side) :
        b[1] <= b[3] /\ b[2] <= b[4]}

\* Lists of tracked objects as track_frame builds them (object_tracker.py
\* 75-82), as far as render_frame reads them: the id and the bbox.
ObjectLists ==
    {[j \in 1..Len(boxes) |-> [id |-> j, bbox |-> boxes[j]]] :
        boxes \in BoundedSeq(BBoxes, MaxDrawn)}

\* cv2.rectangle(img, (x1, y1), (x2, y2), color, thickness): the outline of
\* the box takes the colour.
rectangle(img, bbox, color) ==
    [c \in DOMAIN img |->
        IF /\ c[1] >= bbox[1] /\ c[1] <= bbox[3]
           /\ c[2] >= bbox[2] /\ c[2] <= bbox[4]
           /\ (c[1] \in {bbox[1], bbox[3]} \/ c[2] \in {bbox[2], bbox[4]})
        THEN color ELSE img[c]]

\* Lines 56-69: the loop over tracked_objects, drawing on img.
RECURSIVE draw_loop(_, _, _)
draw_loop(img, objects, n) ==
    IF n > Len(objects) THEN img
    ELSE draw_loop(rectangle(img, objects[n].bbox, BOX_COLOR), objects, n + 1)

\* A render_frame that draws on the frame it was given.
render_frame_in_place(img, objects) ==
    LET annotated_frame == draw_loop(img, objects, 1)
    IN  [frame |-> annotated_frame,
         tracked_objects |-> objects,
         annotated_frame |-> annotated_frame]

\* Lines 52-110: render_frame draws on a copy of the frame. What it leaves
\* of its two arguments, and the frame it returns (current_count,
\* total_unique_count and fps are numbers, and are not read).
render_frame(img, objects) ==
    LET annotated_frame == draw_loop(img, objects, 1)
    IN  [frame |-> img,
         tracked_objects |-> objects,
         annotated_frame |-> annotated_frame]

RenderInit ==
    /\ frame \in Frames
    /\ tracked_objects \in ObjectLists
    /\ given = <<frame, tracked_objects>>
    /\ rendered = <<>>
    /\ PipelineIdle
    /\ FilesIdle
    /\ NamingIdle

\* One call of render_frame on the caller's frame and list; two are made.
RenderFrame ==
    /\ Len(rendered) < 2
    /\ LET r == render_frame(frame, tracked_objects)
       IN  /\ frame' = r.frame
           /\ tracked_objects' = r.tracked_objects
           /\ rendered' = Append(rendered, r.annotated_frame)
    /\ UNCHANGED <<given, files_vars, naming_vars, engine_vars, input_vars, session_vars,
                   control_vars>>

RenderNext == RenderFrame

RenderSpec == RenderInit /\ [][RenderNext]_vars

\* ------------------- process_multiple_videos: the output path of each source
\* Path(video_path).name: what follows the last '/'.
path_name(path) ==
    LET slashes == {j \in 1..Len(path) : path[j] = 47}
    IN  IF slashes = {} THEN path
        ELSE SubSeq(path, (CHOOSE j \in slashes : \A d \in slashes : d <= j) + 1,
                    Len(path))

\* A stem that keeps the suffix.
stem_keeps_suffix(path) == path_name(path)

\* Path(video_path).stem: the name without its suffix.
stem(path) ==
    LET name == path_name(path)
    IN  SubSeq(name, 1, Len(name) - Len(suffix(name)))

\* Lines 209-214: output_path is None without an output_dir (None or ''),
\* and else str(Path(output_dir) / f"tracked_{stem}.mp4").
output_path_of(dir, path) ==
    IF dir = <<>> \/ dir = << <<>> >> THEN <<>>
    ELSE << dir[1] \o <<47>> \o <<116, 114, 97, 99, 107, 101, 100, 95>>
               \o stem(path) \o <<46, 109, 112, 52>> >>

\* Sources: 'a.mp4', 'a.avi', 'b.mp4', 'd/a.mp4', 'a.b.mp4', 'c'.
SourcePaths ==
    { <<97, 46, 109, 112, 52>>, <<97, 46, 97, 118, 105>>, <<98, 46, 109, 112, 52>>,
      <<100, 47, 97, 46, 109, 112, 52>>, <<97, 46, 98, 46, 109, 112, 52>>, <<99>> }

\* Output directories: None, '' and 'o'.
OutputDirs == { <<>>, << <<>> >>, << <<111>> >> }

NamingInit ==
    /\ named_paths \in BoundedSeq(SourcePaths, MaxVideos)
    /\ output_dir \in OutputDirs
    /\ output_paths = <<>>
    /\ PipelineIdle
    /\ FilesIdle
    /\ RenderIdle

\* Lines 207-220 for the next source: its output_path is worked out and
\* handed to process_video.
NameOutput ==
    /\ Len(output_paths) < Len(named_paths)
    /\ output_paths' =
         Append(output_paths,
                output_path_of(output_dir, named_paths[Len(output_paths) + 1]))
    /\ UNCHANGED <<named_paths, output_dir, files_vars, render_vars, engine_vars,
                   input_vars, session_vars, control_vars>>

NamingNext == NameOutput

NamingSpec == NamingInit /\ [][NamingNext]_vars

\* ------------------------------------------------------- engine properties
\* The union of the identity sets of all batches supplied since the reset.
UnionOfFed == UNION {fed[j] : j \in 1..Len(fed)}

\* C1: after each update of a freshly reset (or new) engine the seen
\* identities are the union of the identity sets of the batches supplied so
\* far, the returned total_unique_count is the size of that set, and the
\* size never decreases from one update to the next.
C1_SeenIsUnionOfBatches ==
    /\ [](/\ tracker.unique_ids = UnionOfFed
          /\ tracker.total_unique_count = Cardinality(UnionOfFed)
          /\ Len(fed) > 0 => ret[3] = Cardinality(UnionOfFed))
    /\ [][Len(fed') = Len(fed) + 1 =>
            /\ Cardinality(tracker'.unique_ids) >= Cardinality(tracker.unique_ids)
            /\ ret'[3] >= tracker.total_unique_count]_vars

\* C1 witness: three updates, the second repeating an identity of the first
\* and the third empty, have left both identities seen.
C1_Witness ==
    /\ fed = <<{1}, {1, 2}, {}>>
    /\ tracker.unique_ids = {1, 2}
    /\ ret[3] = 2

\* C2: after any update, current_frame_count (and the returned current
\* count) is the number of distinct identities of the batch just supplied,
\* whatever was supplied before it.
C2_CurrentCountIsDistinctInBatch ==
    Len(fed) > 0 =>
        /\ tracker.current_frame_count = Cardinality(BatchIdentities(batch[1]))
        /\ ret[2] = Cardinality(BatchIdentities(batch[1]))

\* C2 witness: a batch of two boxes carrying one identity, supplied after a
\* batch with two identities, counts one.
C2_Witness ==
    /\ fed = <<{1, 2}, {2}>>
    /\ batch = <<[has_id |-> TRUE, id |-> <<2, 2>>]>>
    /\ tracker.current_frame_count = 1
    /\ tracker.total_unique_count = 2

\* C3: once the engine has been reset, every update returns the pair a
\* never-before-used engine returns for the same batches, and its snapshot
\* is that engine's snapshot.
C3_ResetEqualsFresh ==
    resets > 0 =>
        /\ get_statistics(tracker) = get_statistics(ref)
        /\ Len(fed) > 0 => <<ret[2], ret[3]>> = <<ret_ref[2], ret_ref[3]>>

\* C3 witness: an engine that had seen identities and frames before its
\* reset has been fed two batches since.
C3_Witness ==
    /\ resets > 0
    /\ reused
    /\ Len(fed) = 2
    /\ tracker.unique_ids = {1, 2}
    /\ tracker.frame_number = 2

\* C7: current_frame_count never exceeds the number of seen identities, and
\* right after construction or reset both, and frame_number, are zero.
C7_CurrentAtMostSeen ==
    /\ tracker.current_frame_count <= Cardinality(tracker.unique_ids)
    /\ entered = 0 =>
        /\ tracker.current_frame_count = 0
        /\ Cardinality(tracker.unique_ids) = 0
        /\ tracker.frame_number = 0

\* C7 witness: an engine just reset after it had counted identities.
C7_Witness ==
    /\ resets > 0
    /\ entered = 0
    /\ reused
    /\ ret[2] > 0
    /\ tracker.current_frame_count = 0

\* ------------------------------------------------------ session properties
\* A session of the current call has entered its frame loop.
SessionRan == pc \in {"running", "paused"} \/ loop_exit # ""

\* The frame indices up to n that are multiples of k + 1.
MultiplesUpTo(k, n) == {m \in 1..n : m % (k + 1) = 0}

\* C4 (as stated): a batch that ends, with no failure other than a source
\* that could not be opened, has returned one result per source.
C4_OneResultPerSource ==
    (/\ entry = "process_multiple_videos"
     /\ pc \in {"returned", "raised"}
     /\ exc \in SourceUnavailable \cup {""})
        => (pc = "returned" /\ Len(results) = Len(video_paths))

\* C5: with skip count k = skip_frames, the frames that reached track_frame
\* are exactly the frames read so far whose 1-based index is a multiple of
\* k + 1, each entering the engine once; a stream of N frames read to its
\* end has floor(N / (k + 1)) of them, all counted as processed; and a step
\* that reads a frame of any other index leaves tracker and statistics alone.
C5_SkipPolicy ==
    /\ [](SessionRan =>
            /\ tracked = MultiplesUpTo(skip_frames, frame_count)
            /\ tracker.frame_number = Cardinality(tracked)
            /\ loop_exit = "eos" =>
                /\ Cardinality(tracked) = frame_count \div (skip_frames + 1)
                /\ processed_count = frame_count \div (skip_frames + 1))
    /\ [][(/\ pc = "running"
           /\ frame_count' = frame_count + 1
           /\ frame_count' % (skip_frames + 1) # 0)
            => /\ tracker' = tracker
               /\ persisted' = persisted
               /\ tracked' = tracked
               /\ processed_count' = processed_count
               /\ pc' = "running"]_vars

\* C5 witness: skip count 1, a stream of two frames read to its end: frame 2
\* alone was tracked and one frame was processed.
C5_Witness ==
    /\ loop_exit = "eos"
    /\ skip_frames = 1
    /\ frame_count = 2
    /\ tracked = {2}
    /\ processed_count = 1
    /\ tracker.frame_number = 1

\* C6: when the source cannot be opened the call ends raising, its frame
\* loop never entered: no frame read or processed, track_frame not entered,
\* the statistics as they stood at the call, no writer opened, no result.
C6_SourceUnavailable ==
    exc \in SourceUnavailable =>
        /\ pc = "raised"
        /\ ~SessionRan
        /\ frame_count = 0
        /\ processed_count = 0
        /\ tracked = {}
        /\ tracker = tracker_at_call
        /\ video_writer = "None"
        /\ cap # "opened"
        /\ Len(results) = i - 1

\* C6 witness: the second source of a batch cannot be opened after the first
\* session left identities and frames in the statistics.
C6_Witness ==
    /\ exc \in SourceUnavailable
    /\ i = 2
    /\ output
    /\ tracker.unique_ids # {}
    /\ tracker.frame_number > 0

\* C8: a session's statistics are reset before its first frame is read, and
\* from then on (and in the result returned) frames_processed, the seen
\* identities and the total count are those of the session's own batches.
C8_StatisticsPerSession ==
    /\ (pc = "running" /\ frame_count = 0) => tracker = ObjectTracker_init
    /\ SessionRan =>
        /\ tracker.unique_ids = session_ids
        /\ tracker.total_unique_count = Cardinality(session_ids)
        /\ tracker.frame_number = Cardinality(tracked)
    /\ (SessionRan /\ pc \in {"call", "returned"}) =>
        LET st == results[Len(results)].statistics
        IN  /\ st.frames_processed = Cardinality(tracked)
            /\ st.total_unique = Cardinality(session_ids)
            /\ st.unique_ids = sorted(session_ids)

\* C8 witness: the second session of a batch has returned statistics holding
\* identity 2 alone, after a first session that saw identity 1.
C8_Witness ==
    /\ pc \in {"call", "returned"}
    /\ Len(results) = 2
    /\ results[1].statistics.unique_ids = <<1>>
    /\ results[2].statistics.unique_ids = <<2>>
    /\ results[2].statistics.frames_processed = 1
    /\ session_ids = {2}

\* C9 (as stated): when a session begins, the association state the model's
\* tracker keeps across track calls has been reset.
C9_AssociationStateReset ==
    (pc = "running" /\ frame_count = 0) => persisted = {}

\* The session of the latest call entered its frame loop and has ended.
SessionEnded == loop_exit # "" /\ pc \in {"call", "returned", "raised"}

\* C10 (as stated): however a session that opened its source ends, the
\* capture is released, the writer is released if one was opened, the
\* windows are destroyed if display was on, and a result built from the
\* final statistics was produced.
C10_ReleasedAndReported ==
    SessionEnded =>
        /\ cap = "released"
        /\ video_writer \in {"None", "released"}
        /\ display => window = "destroyed"
        /\ pc # "raised"
        /\ Len(results) > 0
        /\ results[Len(results)].statistics = get_statistics(tracker)

\* C11 (as stated): a write failure while the frame loop runs ends the
\* session with a result handed to the caller, never with an exception
\* raised past process_video.
C11_FailureReportedAsResult ==
    failed_at = "write" => pc # "raised"

\* C12: with display on, a q sampled at a tracked frame leaves the loop at
\* once: the session is never again running or paused, no further frame is
\* read, tracked or written, and the result that is returned is built from
\* the counters and statistics the way it is after the end of the stream.
C12_QuitFinishes ==
    /\ [](loop_exit = "quit" => display /\ pc \notin {"running", "paused"})
    /\ [][(loop_exit' = "quit" /\ loop_exit # "quit") =>
            /\ pc = "running" /\ pc' = "cleanup"
            /\ frame_count' = frame_count + 1
            /\ frame_count' \in tracked']_vars
    /\ [][(loop_exit = "quit" /\ pc \in {"cleanup", "report"}) =>
            /\ UNCHANGED <<frame_count, reads, tracker, persisted, tracked, written>>
            /\ pc' \in {"cleanup", "report", "raised", "call", "returned"}]_vars
    /\ []((loop_exit \in {"quit", "eos"} /\ pc \in {"call", "returned"}) =>
            /\ Len(results) > 0
            /\ results[Len(results)] =
                 [video_path |-> video_path[1],
                  frames_processed |-> processed_count,
                  statistics |-> get_statistics(tracker)])

\* C12 witness: q arrived at the first frame while the run could still have
\* read another; the frame was written and the call has returned its result.
C12_Witness ==
    /\ loop_exit = "quit"
    /\ pc = "returned"
    /\ reads < MaxFrames
    /\ frame_count = 1
    /\ written = <<1>>
    /\ Len(results) = 1

\* C13: with display on, p moves a running session to paused; while it is
\* paused no frame is read, the tracker is not called and the statistics
\* stay as they are; the next key, whichever it is, puts the session back
\* to running, and every step of a running session begins with a read.
C13_PauseAndResume ==
    /\ [](pc = "paused" => display /\ window = "shown" /\ loop_exit = "")
    /\ [][(pc' = "paused" /\ pc # "paused") => pc = "running"]_vars
    /\ [][pc = "paused" =>
            /\ pc' = "running"
            /\ UNCHANGED <<frame_count, reads, tracker, persisted, tracked, written,
                           loop_exit>>]_vars
    /\ [][pc = "running" => (reads' = reads + 1 \/ loop_exit' = "eos")]_vars

\* C13 witness: the session is paused at its first frame, which was tracked
\* and shown, and the run could still read another frame.
C13_Witness ==
    /\ pc = "paused"
    /\ frame_count = 1
    /\ tracker.frame_number = 1
    /\ reads < MaxFrames

\* C14: process_multiple_videos runs its sessions one after the other in
\* input order: a session starts only when the one before it has released
\* its capture, writer and windows; result j belongs to source j; and the
\* list returned has one result for each source.
C14_SequentialInOrder ==
    /\ [](\A j \in 1..Len(results) : results[j].video_path = video_paths[j])
    /\ [](entry = "process_multiple_videos" => Len(results) = i - 1)
    /\ []((entry = "process_multiple_videos" /\ pc = "returned") =>
            Len(results) = Len(video_paths))
    /\ [][(video_path # <<>> /\ video_path' # video_path) =>
            /\ cap = "released"
            /\ video_writer \in {"None", "released"}
            /\ window # "shown"
            /\ video_path'[1] = video_path[1] + 1]_vars

\* C14 witness: two sources were processed and the list of two results was
\* returned.
C14_Witness ==
    /\ entry = "process_multiple_videos"
    /\ pc = "returned"
    /\ Len(results) = 2
    /\ results[1].video_path = 1
    /\ results[2].video_path = 2

\* The frame whose iteration raised before it reached the writer.
Unfinished ==
    IF failed_at \in {"track", "render", "write"} THEN {frame_count} ELSE {}

\* C15: when a writer exists, the frames handed to it in a session are the
\* frames that were tracked and rendered, each once and in stream order; a
\* skipped frame is never handed to it.
C15_WrittenAreProcessed ==
    (video_writer # "None" /\ SessionRan) =>
        /\ {written[j] : j \in 1..Len(written)} = tracked \ Unfinished
        /\ \A a, b \in 1..Len(written) : a < b => written[a] < written[b]
        /\ \A j \in 1..Len(written) : written[j] % (skip_frames + 1) = 0

\* C15 witness: with skip_frames 1 the first frame was skipped and the
\* second was written.
C15_Witness ==
    /\ video_writer = "opened"
    /\ skip_frames = 1
    /\ frame_count = 2
    /\ written = <<2>>

\* C16 (as stated): a writer that cannot take frames is handed no frame
\* after the first one it failed to take.
C16_NoWriteAfterFailure ==
    video_writer = "unusable" => Len(written) <= 1

\* C17: every update that supplies a batch raises frames_processed by
\* exactly one; a batch with no identity (an empty result, or boxes without
\* ids) leaves current_frame_count and the returned current count at 0 and
\* changes neither the seen identities nor the total unique count.
C17_EveryUpdateCounts ==
    [][Len(fed') = Len(fed) + 1 =>
        /\ get_statistics(tracker').frames_processed =
             get_statistics(tracker).frames_processed + 1
        /\ BatchIdentities(batch'[1]) = {} =>
             /\ tracker'.current_frame_count = 0
             /\ ret'[2] = 0
             /\ tracker'.unique_ids = tracker.unique_ids
             /\ tracker'.total_unique_count = tracker.total_unique_count
             /\ ret'[3] = tracker.total_unique_count]_vars

\* C17 witness: a batch without identities, supplied after a batch with two,
\* was counted as the second frame and left both identities seen.
C17_Witness ==
    /\ fed = <<{1, 2}, {}>>
    /\ batch = <<[has_id |-> FALSE, id |-> <<>>]>>
    /\ tracker.frame_number = 2
    /\ tracker.current_frame_count = 0
    /\ tracker.total_unique_count = 2

\* C18: get_statistics changes nothing in the engine; a second call with no
\* update or reset in between returns what the first returned; and the
\* unique_ids it reports are ascending, without duplicates, and exactly the
\* identities seen.
C18_SnapshotReadOnly ==
    /\ [][(snap' # <<>> /\ entered' = entered /\ resets' = resets) =>
            /\ tracker' = tracker
            /\ snap # <<>> => snap' = snap]_vars
    /\ [](snap # <<>> =>
            LET ids == snap[1].unique_ids
            IN  /\ \A a, b \in 1..Len(ids) : a < b => ids[a] < ids[b]
                /\ {ids[j] : j \in 1..Len(ids)} = tracker.unique_ids
                /\ snap[1].total_unique = Len(ids)
                /\ snap[1].frames_processed = tracker.frame_number
                /\ snap[1].current_count = tracker.current_frame_count)

\* C18 witness: identity 2 was seen before identity 1, and the snapshot
\* lists them ascending.
C18_Witness ==
    /\ fed = <<{2}, {1}>>
    /\ snap # <<>>
    /\ snap[1].unique_ids = <<1, 2>>
    /\ snap[1].current_count = 1

\* The names found, as a set.
FoundNames == {found[1][j] : j \in 1..Len(found[1])}

\* C19 (as stated): for a directory, get_video_files returns the entries
\* whose suffix, lower-cased, is one of the extensions, each once, ascending.
C19_VideoFilesOfDirectory ==
    (found # <<>> /\ file_path.kind = "dir") =>
        /\ FoundNames =
             {file_path.entries[j] : j \in
                {n \in 1..Len(file_path.entries) :
                    \E k \in 1..Len(extensions) :
                        lower(suffix(file_path.entries[n])) = extensions[k]}}
        /\ \A a, b \in 1..Len(found[1]) : a < b => str_lt(found[1][a], found[1][b])

\* C20: render_frame leaves the frame and the list it was given as they
\* were, and a second call with them returns the frame the first returned.
C20_RenderFramePure ==
    rendered # <<>> =>
        /\ frame = given[1]
        /\ tracked_objects = given[2]
        /\ \A a, b \in 1..Len(rendered) : rendered[a] = rendered[b]

\* C20 witness: two calls were made with two boxes, and what they returned
\* differs from the frame handed in.
C20_Witness ==
    /\ Len(rendered) = 2
    /\ Len(tracked_objects) = 2
    /\ rendered[1] # frame
    /\ \E c \in Cells : rendered[2][c] = BOX_COLOR /\ frame[c] # BOX_COLOR

\* The steps of one iteration, in the order they are to be taken.
StepOrder == <<"read", "track", "update", "render", "write", "show", "sample">>

\* The steps of a set, each once, in that order.
InStepOrder(taken) == SelectSeq(StepOrder, LAMBDA step : step \in taken)

\* C21: every iteration that reads a frame takes its steps in the order
\* read, track, update, render, write, show, sample, each at most once, and
\* takes them all before the next read: a frame that is processed goes
\* through read, track, update and render, through write exactly when a
\* writer exists, and through show and sample exactly when display is on;
\* the key is sampled last, once, only with display on, and never for a
\* skipped frame; the key that ends a pause is no further sample.
C21_StepOrder ==
    /\ [][reads' = reads + 1 =>
            /\ steps'[1] = "read"
            /\ steps' = InStepOrder({steps'[j] : j \in 1..Len(steps')})
            /\ (frame_count' \in tracked' /\ failed_at' = "") =>
                 {steps'[j] : j \in 1..Len(steps')} =
                     {"read", "track", "update", "render"}
                         \cup (IF video_writer # "None" THEN {"write"} ELSE {})
                         \cup (IF display THEN {"show", "sample"} ELSE {})
            /\ frame_count' \notin tracked' => steps' = <<"read">>
            /\ (\E j \in 1..Len(steps') : steps'[j] = "sample") =>
                 /\ display
                 /\ steps'[Len(steps')] = "sample"]_vars
    /\ [][(reads' = reads /\ steps' # steps /\ pc # "call" /\ pc # "running") =>
            /\ pc = "paused"
            /\ steps' = Append(steps, "wait")
            /\ Cardinality({j \in 1..Len(steps') : steps'[j] = "sample"}) = 1]_vars

\* C21 witness: with a writer and display on, the second frame of a session
\* went through all seven steps.
C21_Witness ==
    /\ display
    /\ video_writer = "opened"
    /\ frame_count = 2
    /\ pc = "running"
    /\ steps = StepOrder

\* C22 (as stated): in every result, frames_processed equals the
\* frames_processed of the statistics in the same result, however the
\* session ended.
C22_CountsAgree ==
    \A j \in 1..Len(results) :
        results[j].frames_processed = results[j].statistics.frames_processed

\* C23: with display off no key is ever sampled, so the session is never
\* paused and never left by q; a session whose frame loop was entered leaves
\* it and releases its capture; and unless a step of the loop raised, the
\* loop is left at the end of the stream, with floor(N / (k + 1)) of the N
\* frames read tracked and counted, k being skip_frames.
C23_HeadlessRunsToEnd ==
    /\ [](~display =>
            /\ pc # "paused"
            /\ loop_exit # "quit"
            /\ window = "none"
            /\ \A j \in 1..Len(steps) : steps[j] \notin {"show", "sample", "wait"})
    /\ []((~display /\ loop_exit # "") =>
            /\ failed_at = "" => loop_exit = "eos"
            /\ loop_exit = "eos" =>
                /\ processed_count = frame_count \div (skip_frames + 1)
                /\ Cardinality(tracked) = frame_count \div (skip_frames + 1)
                /\ tracker.frame_number = frame_count \div (skip_frames + 1))
    /\ ((~display /\ pc = "running") ~>
            (pc \in {"report", "raised"} /\ cap = "released" /\ loop_exit # ""))

\* C23 witness: a headless session with skip_frames 1 read both frames of
\* its stream, reached the end and returned with one frame counted.
C23_Witness ==
    /\ ~display
    /\ pc = "returned"
    /\ loop_exit = "eos"
    /\ skip_frames = 1
    /\ frame_count = 2
    /\ Len(results) = 1
    /\ results[1].frames_processed = 1

\* Whether name is st followed by its last extension ext: ext starts with a
\* dot, holds no other dot and at least one more character, and st is not
\* empty; or name has no such extension and st is all of it.
SplitsAtLastExtension(name, st, ext) ==
    /\ name = st \o ext
    /\ \/ /\ Len(ext) >= 2
          /\ ext[1] = 46
          /\ \A j \in 2..Len(ext) : ext[j] # 46
          /\ st # <<>>
       \/ /\ ext = <<>>
          /\ \A j \in 2..(Len(name) - 1) : name[j] # 46

\* The file name without its last extension (one string for every name).
LastStems(name) ==
    {SubSeq(name, 1, k) : k \in
        {n \in 0..Len(name) :
            SplitsAtLastExtension(name, SubSeq(name, 1, n), SubSeq(name, n + 1, Len(name)))}}

\* C24: with an output directory, the output path of source j is the
\* directory, '/', 'tracked_', the source's file name without its last
\* extension, and '.mp4'; so two sources with the same such stem are given
\* the same output path.
C24_OutputPath ==
    (output_dir # <<>> /\ output_dir # << <<>> >>) =>
        /\ \A j \in 1..Len(output_paths) :
             \E st \in LastStems(path_name(named_paths[j])) :
                 output_paths[j] =
                     << output_dir[1] \o <<47, 116, 114, 97, 99, 107, 101, 100, 95>>
                          \o st \o <<46, 109, 112, 52>> >>
        /\ \A j, k \in 1..Len(output_paths) :
             LastStems(path_name(named_paths[j])) \cap
                 LastStems(path_name(named_paths[k])) # {}
                => output_paths[j] = output_paths[k]

\* C24 witness: 'a.mp4' and 'a.avi' of one batch were both given
\* 'o/tracked_a.mp4'.
C24_Witness ==
    /\ named_paths = << <<97, 46, 109, 112, 52>>, <<97, 46, 97, 118, 105>> >>
    /\ Len(output_paths) = 2
    /\ output_paths[1] = output_paths[2]
    /\ output_paths[1] =
         << <<111, 47, 116, 114, 97, 99, 107, 101, 100, 95, 97, 46, 109, 112, 52>> >>
====
